---- MODULE Spec2Model ----
(***************************************************************************)
(* Model of src/app.py: the rate engine get_io_and_net_speeds with its     *)
(* helper _calc_speed and the module-level store _prev_snapshot, and the   *)
(* /api/metrics handler that calls it.                                     *)
(*                                                                         *)
(* Encoding.  A Python value that may be None is a sequence of length 0    *)
(* (None) or 1 (the value).  A dict is a function whose domain is its key  *)
(* set.  Time is an integer number of microseconds, the unit of the floor  *)
(* 1e-6 of _calc_speed, so that floor is EPS == 1; a float rate is the     *)
(* exact rational [num, den] in lowest terms with den > 0, in bytes per    *)
(* microsecond.                                                            *)
(***************************************************************************)
EXTENDS Integers, Sequences, FiniteSets, TLC

VARIABLES
    _prev_snapshot,  \* the module-level dict of lines 18-23
    frame,           \* the locals and return value of the poll that just returned, or None
    thr,             \* concurrent polls: each server thread's position and locals
    writer,          \* for each key of _prev_snapshot, the poll that wrote it last (0: none)
    polls,           \* the number of concurrent polls begun
    clock,           \* the last value time.time() gave a concurrent poll
    response         \* the outcome of the /api/metrics request that just ended, or None

vars == <<_prev_snapshot, frame, thr, writer, polls, clock, response>>
concVars == <<thr, writer, polls, clock>>

----------------------------------------------------------------------------
(* Bounds of the environment. *)

MaxTime == 2
MaxBytes == 2
MaxPkts == 2

Times == 1..MaxTime
Bytes == 0..MaxBytes
Pkts == 1..MaxPkts
NICs == {"eth0", "eth1"}

----------------------------------------------------------------------------
(* Python values. *)

None == <<>>
Some(x) == <<x>>
EmptyDict == [n \in {} |-> None]

\* Python truth of an optional number: None and 0 are false.
Truthy(o) == o # None /\ o[1] # 0

\* Python truth of an optional tuple or namedtuple: only None is false.
Present(o) == o # None

\* Python truth of an optional dict: None and {} are false.
NonEmpty(o) == o # None /\ DOMAIN o[1] # {}

Max(a, b) == IF a >= b THEN a ELSE b
Abs(a) == IF a >= 0 THEN a ELSE 0 - a

RECURSIVE GCD(_, _)
GCD(a, b) == IF b = 0 THEN a ELSE GCD(b, a % b)

\* n / d for d > 0, as the rational in lowest terms.
Div(n, d) == LET g == GCD(Abs(n), d) IN [num |-> n \div g, den |-> d \div g]

\* The float literal 0.0.
Zero == [num |-> 0, den |-> 1]

----------------------------------------------------------------------------
(* _calc_speed, lines 119-124. *)

EPS == 1

\* _calc_speed with a counter decrease clamped to a zero delta.
_calc_speed_Clamped(now, prev, now_val, prev_val) ==
    LET dt == Max(now - (IF Truthy(prev) THEN prev[1] ELSE now), EPS)
    IN  Div(Max(now_val - (IF prev_val # 0 THEN prev_val ELSE now_val), 0), dt)

\* prev is an optional time, now_val and prev_val are counter values.  The
\* except branch of line 123 is dead for numbers: dt >= EPS > 0.
_calc_speed(now, prev, now_val, prev_val) ==
    LET dt == Max(now - (IF Truthy(prev) THEN prev[1] ELSE now), EPS)
    IN  Div(now_val - (IF prev_val # 0 THEN prev_val ELSE now_val), dt)

----------------------------------------------------------------------------
(* The counter source: what the three psutil calls of one poll do. *)

NetReadings == [bytes_sent : Bytes, bytes_recv : Bytes]

\* The two packet counts of a reading are kept apart by MaxPkts so that one
\* is never mistaken for the other.
NicReadings ==
    {[bytes_sent |-> s, bytes_recv |-> r, packets_sent |-> p, packets_recv |-> p + MaxPkts] :
        s \in Bytes, r \in Bytes, p \in Pkts}

DiskReadings ==
    {[read_bytes |-> s, write_bytes |-> r, read_count |-> p, write_count |-> p + MaxPkts] :
        s \in Bytes, r \in Bytes, p \in Pkts}

QuietNet == [bytes_sent |-> 1, bytes_recv |-> 1]
QuietNic == [bytes_sent |-> 1, bytes_recv |-> 1, packets_sent |-> 1, packets_recv |-> 1 + MaxPkts]
QuietDisk == [read_bytes |-> 1, write_bytes |-> 1, read_count |-> 1, write_count |-> 1 + MaxPkts]

\* Per-interface dicts over any set of interfaces: eth0 carries the traffic,
\* the other interfaces are quiet ones that come and go.
NicDicts ==
    UNION {{[n \in S |-> IF n = "eth0" THEN r ELSE QuietNic] : r \in NicReadings} :
              S \in SUBSET NICs}

Calls == {"net", "nic", "disk"}

\* raises: the calls that raise; net, nic, disk: what the others return.
\* psutil returns None for the aggregate and {} per interface on a host with
\* no interface, and None for the disks on a host with no disk.
QuietSrc ==
    [raises |-> {}, net |-> Some(QuietNet), nic |-> [n \in NICs |-> QuietNic],
     disk |-> Some(QuietDisk)]

\* One group of counters moves at a time; the others read quiet.
Sources ==
    {[QuietSrc EXCEPT !.net = Some(r)] : r \in NetReadings}
    \cup {[QuietSrc EXCEPT !.nic = d] : d \in NicDicts}
    \cup {[QuietSrc EXCEPT !.disk = Some(r)] : r \in DiskReadings}
    \cup {[QuietSrc EXCEPT !.disk = None]}
    \cup {[QuietSrc EXCEPT !.net = None, !.nic = EmptyDict]}
    \cup {[QuietSrc EXCEPT !.raises = f] : f \in (SUBSET Calls) \ {{}}}
    \cup {[QuietSrc EXCEPT !.raises = {"nic"}, !.net = Some(r)] : r \in NetReadings}

----------------------------------------------------------------------------
(* get_io_and_net_speeds, lines 126-197. *)

\* Lines 130-135: both network reads share one try.
ReadNet(src) ==
    IF "net" \in src.raises \/ "nic" \in src.raises
    THEN [net |-> None, net_pernic |-> EmptyDict]
    ELSE [net |-> src.net, net_pernic |-> src.nic]

\* Lines 137-140.
ReadDisk(src) == IF "disk" \in src.raises THEN None ELSE src.disk

\* NetSpeeds without the cold-start branch: a missing previous sample counts
\* as a reading of 0 taken at time 0.
NetSpeeds_NoColdStart(now, net, prev_time, prev_net) ==
    IF Present(net)
    THEN LET dt == Max(now - (IF prev_time # None THEN prev_time[1] ELSE 0), EPS)
             old == IF Present(prev_net) THEN prev_net[1] ELSE [bytes_sent |-> 0, bytes_recv |-> 0]
         IN  [bytes_sent_per_sec |-> Div(net[1].bytes_sent - old.bytes_sent, dt),
              bytes_recv_per_sec |-> Div(net[1].bytes_recv - old.bytes_recv, dt)]
    ELSE [bytes_sent_per_sec |-> Zero, bytes_recv_per_sec |-> Zero]

\* Lines 148 and 158-164.
NetSpeeds(now, net, prev_time, prev_net) ==
    IF Present(net) /\ Truthy(prev_time) /\ Present(prev_net)
    THEN [bytes_sent_per_sec |-> _calc_speed(now, prev_time, net[1].bytes_sent, prev_net[1].bytes_sent),
          bytes_recv_per_sec |-> _calc_speed(now, prev_time, net[1].bytes_recv, prev_net[1].bytes_recv)]
    ELSE [bytes_sent_per_sec |-> Zero, bytes_recv_per_sec |-> Zero]

\* Line 168: prev_net_pernic.get(nic) if prev_net_pernic else None.
PrevCounters(prev_net_pernic, nic) ==
    IF NonEmpty(prev_net_pernic) /\ nic \in DOMAIN prev_net_pernic[1]
    THEN Some(prev_net_pernic[1][nic])
    ELSE None

\* PerNicSpeeds that also reports, with zero rates, the interfaces only the
\* previous sample has.
PerNicSpeeds_KeepsRemoved(now, net_pernic, prev_time, prev_net_pernic) ==
    LET old == IF prev_net_pernic # None THEN prev_net_pernic[1] ELSE EmptyDict
    IN  [nic \in DOMAIN net_pernic \cup DOMAIN old |->
            LET counters == IF nic \in DOMAIN net_pernic THEN net_pernic[nic] ELSE old[nic]
                timed == Truthy(prev_time) /\ nic \in DOMAIN net_pernic /\ nic \in DOMAIN old
            IN  [bytes_sent_per_sec |->
                    IF timed
                    THEN _calc_speed(now, prev_time, counters.bytes_sent, old[nic].bytes_sent)
                    ELSE Zero,
                 bytes_recv_per_sec |->
                    IF timed
                    THEN _calc_speed(now, prev_time, counters.bytes_recv, old[nic].bytes_recv)
                    ELSE Zero,
                 packets_sent |-> counters.packets_sent,
                 packets_recv |-> counters.packets_recv]]

\* Lines 149 and 166-180.  net_pernic is a dict; {} is false at line 166.
PerNicSpeeds(now, net_pernic, prev_time, prev_net_pernic) ==
    [nic \in DOMAIN net_pernic |->
        LET counters == net_pernic[nic]
            prev_c == PrevCounters(prev_net_pernic, nic)
            timed == Truthy(prev_time) /\ Present(prev_c)
        IN  [bytes_sent_per_sec |->
                IF timed
                THEN _calc_speed(now, prev_time, counters.bytes_sent, prev_c[1].bytes_sent)
                ELSE Zero,
             bytes_recv_per_sec |->
                IF timed
                THEN _calc_speed(now, prev_time, counters.bytes_recv, prev_c[1].bytes_recv)
                ELSE Zero,
             packets_sent |-> counters.packets_sent,
             packets_recv |-> counters.packets_recv]]

\* Lines 150-155 and 182-190.
DiskSpeeds(now, disk_io, prev_time, prev_disk_io) ==
    IF ~Present(disk_io)
    THEN [read_bytes_per_sec |-> Zero, write_bytes_per_sec |-> Zero,
          read_count |-> None, write_count |-> None]
    ELSE LET timed == Truthy(prev_time) /\ Present(prev_disk_io)
         IN  [read_bytes_per_sec |->
                 IF timed
                 THEN _calc_speed(now, prev_time, disk_io[1].read_bytes, prev_disk_io[1].read_bytes)
                 ELSE Zero,
              write_bytes_per_sec |->
                 IF timed
                 THEN _calc_speed(now, prev_time, disk_io[1].write_bytes, prev_disk_io[1].write_bytes)
                 ELSE Zero,
              read_count |-> Some(disk_io[1].read_count),
              write_count |-> Some(disk_io[1].write_count)]

\* Lines 147-190: the result built from the locals of one poll.
Speeds(now, net, net_pernic, disk_io, prev) ==
    [net |-> NetSpeeds(now, net, prev.time, prev.net),
     per_nic |-> PerNicSpeeds(now, net_pernic, prev.time, prev.net_pernic),
     disk_io |-> DiskSpeeds(now, disk_io, prev.time, prev.disk_io)]

\* Lines 192-195: the sample that replaces the stored one.
Stored(now, net, net_pernic, disk_io) ==
    [time |-> Some(now), net |-> net, net_pernic |-> Some(net_pernic), disk_io |-> disk_io]

\* Lines 18-23.
EmptySnapshot == [time |-> None, net |-> None, net_pernic |-> None, disk_io |-> None]

\* One whole call, with no other call running meanwhile.  time.time() is the
\* wall clock: it may repeat a value or step back.
Poll(now, src) ==
    /\ frame = None
    /\ LET r == ReadNet(src)
           disk_io == ReadDisk(src)
       IN  /\ frame' = Some([now |-> now, src |-> src,
                             net |-> r.net, net_pernic |-> r.net_pernic, disk_io |-> disk_io,
                             prev |-> _prev_snapshot,
                             speeds |-> Speeds(now, r.net, r.net_pernic, disk_io, _prev_snapshot)])
           /\ _prev_snapshot' = Stored(now, r.net, r.net_pernic, disk_io)
    /\ UNCHANGED <<concVars, response>>

\* Line 197: the caller takes the result.
Return ==
    /\ frame # None
    /\ frame' = None
    /\ UNCHANGED <<_prev_snapshot, concVars, response>>

Threads == {"t1", "t2"}
Keys == {"time", "net", "net_pernic", "disk_io"}

\* A thread that serves no request.
Idle ==
    [pc |-> "idle", id |-> 0, now |-> 0, net |-> None, net_pernic |-> EmptyDict,
     disk_io |-> None, prev |-> EmptySnapshot, from |-> [k \in Keys |-> 0], speeds |-> None]

Init ==
    /\ _prev_snapshot = EmptySnapshot
    /\ frame = None
    /\ thr = [t \in Threads |-> Idle]
    /\ writer = [k \in Keys |-> 0]
    /\ polls = 0
    /\ clock = 1
    /\ response = None

Next ==
    \/ \E now \in Times, src \in Sources : Poll(now, src)
    \/ Return

Spec == Init /\ [][Next]_vars

----------------------------------------------------------------------------
(* get_io_and_net_speeds run by the threads of the server (app.run serves  *)
(* each request in its own thread): one step per statement that touches    *)
(* _prev_snapshot.  The function takes no lock.                            *)

MaxPolls == 3

\* The counter source of the concurrent runs: counters that grow with the clock.
SrcAt(now) == [QuietSrc EXCEPT !.net = Some([bytes_sent |-> now, bytes_recv |-> now])]

\* Lines 128-140: the clock and the counters are read.  The clock does not
\* step back here.
Begin(t) ==
    /\ thr[t].pc = "idle"
    /\ polls < MaxPolls
    /\ \E now \in clock..MaxTime :
          LET r == ReadNet(SrcAt(now))
          IN  /\ thr' = [thr EXCEPT ![t] =
                            [Idle EXCEPT !.pc = "read_time", !.id = polls + 1, !.now = now,
                                         !.net = r.net, !.net_pernic = r.net_pernic,
                                         !.disk_io = ReadDisk(SrcAt(now))]]
              /\ clock' = now
    /\ polls' = polls + 1
    /\ UNCHANGED <<_prev_snapshot, frame, writer, response>>

\* Lines 142-145: one read of _prev_snapshot[k].
ReadPrev(t, k, at, next) ==
    /\ thr[t].pc = at
    /\ thr' = [thr EXCEPT ![t].prev[k] = _prev_snapshot[k],
                          ![t].from[k] = writer[k],
                          ![t].pc = next]
    /\ UNCHANGED <<_prev_snapshot, frame, writer, polls, clock, response>>

\* Lines 147-190.
Compute(t) ==
    /\ thr[t].pc = "compute"
    /\ thr' = [thr EXCEPT ![t].speeds =
                              Some(Speeds(thr[t].now, thr[t].net, thr[t].net_pernic,
                                          thr[t].disk_io, thr[t].prev)),
                          ![t].pc = "write_time"]
    /\ UNCHANGED <<_prev_snapshot, frame, writer, polls, clock, response>>

\* Lines 192-195: one assignment to _prev_snapshot[k].
WritePrev(t, k, at, next) ==
    /\ thr[t].pc = at
    /\ _prev_snapshot' =
          [_prev_snapshot EXCEPT ![k] =
              Stored(thr[t].now, thr[t].net, thr[t].net_pernic, thr[t].disk_io)[k]]
    /\ writer' = [writer EXCEPT ![k] = thr[t].id]
    /\ thr' = [thr EXCEPT ![t].pc = next]
    /\ UNCHANGED <<frame, polls, clock, response>>

\* Line 197.
Finish(t) ==
    /\ thr[t].pc = "return"
    /\ thr' = [thr EXCEPT ![t] = Idle]
    /\ UNCHANGED <<_prev_snapshot, frame, writer, polls, clock, response>>

ReadPrevTime(t) == ReadPrev(t, "time", "read_time", "read_net")
ReadPrevNet(t) == ReadPrev(t, "net", "read_net", "read_nic")
ReadPrevNic(t) == ReadPrev(t, "net_pernic", "read_nic", "read_disk")
ReadPrevDisk(t) == ReadPrev(t, "disk_io", "read_disk", "compute")
WriteTime(t) == WritePrev(t, "time", "write_time", "write_net")
WriteNet(t) == WritePrev(t, "net", "write_net", "write_nic")
WriteNic(t) == WritePrev(t, "net_pernic", "write_nic", "write_disk")
WriteDisk(t) == WritePrev(t, "disk_io", "write_disk", "return")

NextConc ==
    \E t \in Threads :
        \/ Begin(t)
        \/ ReadPrevTime(t)
        \/ ReadPrevNet(t)
        \/ ReadPrevNic(t)
        \/ ReadPrevDisk(t)
        \/ Compute(t)
        \/ WriteTime(t)
        \/ WriteNet(t)
        \/ WriteNic(t)
        \/ WriteDisk(t)
        \/ Finish(t)

SpecConc == Init /\ [][NextConc]_vars

----------------------------------------------------------------------------
(* metrics, lines 225-374: one request to /api/metrics. *)

\* The operating-system calls of a request that may raise.
Providers ==
    {"cpu_percent", "cpu_count", "virtual_memory", "swap_memory", "disk_partitions",
     "disk_usage", "net_io_counters", "disk_io_counters", "getGPUs", "net_if_addrs",
     "sensors_battery", "process_iter", "net_connections", "boot_time"}

\* Calls outside every try of the request: cpu_count at lines 237 and 243-244,
\* virtual_memory and swap_memory at lines 256-257.
RaisesBeforePoll(failing) == failing \cap {"cpu_count", "virtual_memory", "swap_memory"} # {}

\* process_iter at lines 52 and 74 is the iterable of a for statement whose
\* try is inside the loop body; both are called after line 294.
RaisesAfterPoll(failing) == "process_iter" \in failing

\* What the two calls of net_io_counters and the call of disk_io_counters
\* inside get_io_and_net_speeds do in this request.
MetricsSrc(now, failing) ==
    [SrcAt(now) EXCEPT !.raises =
        (IF "net_io_counters" \in failing THEN {"net", "nic"} ELSE {})
        \cup (IF "disk_io_counters" \in failing THEN {"disk"} ELSE {})]

\* Lines 354-374: the JSON object, each section by the branch that built it.
Body(failing, cpu_zero, speeds) ==
    [cpu |-> IF "cpu_percent" \in failing \/ cpu_zero THEN "placeholder" ELSE "measured",
     memory |-> "measured",
     disks |-> IF failing \cap {"disk_partitions", "disk_usage"} # {} THEN "empty" ELSE "list",
     network_totals |-> IF "net_io_counters" \in failing THEN "zeros" ELSE "measured",
     network_speeds |-> speeds.net,
     per_nic_speeds |-> speeds.per_nic,
     disk_io_speeds |-> speeds.disk_io,
     disk_io_totals |-> IF "disk_io_counters" \in failing THEN "nulls" ELSE "measured",
     gpu |-> IF "getGPUs" \in failing THEN "empty" ELSE "list",
     system_info |-> IF "net_if_addrs" \in failing THEN "no_addresses" ELSE "measured",
     interfaces |-> IF "net_if_addrs" \in failing THEN "empty" ELSE "list",
     battery |-> IF "sensors_battery" \in failing THEN "absent" ELSE "measured",
     top_processes_cpu |-> "list",
     top_processes_mem |-> "list",
     page_faults_total |-> "measured",
     uptime_boot_time |-> IF "boot_time" \in failing THEN "null" ELSE "measured",
     timestamp |-> "measured",
     connections_count |-> IF "net_connections" \in failing THEN "zero" ELSE "measured",
     message |-> "null"]

\* failing: the calls that raise during this request; cpu_zero: cpu_percent
\* reads all zeros.  An exception that leaves metrics() fails the request.
Metrics(now, failing, cpu_zero) ==
    /\ response = None
    /\ IF RaisesBeforePoll(failing)
       THEN /\ response' = Some([status |-> 500, body |-> None])
            /\ UNCHANGED _prev_snapshot
       ELSE LET src == MetricsSrc(now, failing)
                r == ReadNet(src)
                disk_io == ReadDisk(src)
                speeds == Speeds(now, r.net, r.net_pernic, disk_io, _prev_snapshot)
            IN  /\ _prev_snapshot' = Stored(now, r.net, r.net_pernic, disk_io)
                /\ response' =
                      IF RaisesAfterPoll(failing)
                      THEN Some([status |-> 500, body |-> None])
                      ELSE Some([status |-> 200, body |-> Some(Body(failing, cpu_zero, speeds))])
    /\ UNCHANGED <<frame, concVars>>

\* The transport layer sends the response.
Respond ==
    /\ response # None
    /\ response' = None
    /\ UNCHANGED <<_prev_snapshot, frame, concVars>>

NextMetrics ==
    \/ \E now \in Times, failing \in SUBSET Providers, cpu_zero \in BOOLEAN :
          Metrics(now, failing, cpu_zero)
    \/ Respond

SpecMetrics == Init /\ [][NextMetrics]_vars

----------------------------------------------------------------------------
(* Claims about consecutive, non-overlapping polls (Spec). *)

\* The rate r is the rational n / d.
RateIs(r, n, d) == r.den > 0 /\ r.num * d = n * r.den

\* The frame of the poll that just returned.
F == frame[1]

\* The poll that just returned found a stored time and a stored sample of
\* both the aggregate network counters and the disk counters.
HasPrevNet == frame # None /\ F.prev.time # None /\ Present(F.prev.net) /\ Present(F.net)
HasPrevDisk == frame # None /\ F.prev.time # None /\ Present(F.prev.disk_io) /\ Present(F.disk_io)

\* C1: two consecutive polls at T1 < T2 in which a byte counter reads C1 then
\* C2 with 0 <= C1 <= C2: the second poll reports (C2 - C1) / (T2 - T1), for
\* bytes_sent, bytes_recv, read_bytes and write_bytes.
C1_RateIsDeltaOverElapsed ==
    /\ (HasPrevNet /\ F.prev.time[1] < F.now) =>
          LET dt == F.now - F.prev.time[1]
              c1 == F.prev.net[1]
              c2 == F.net[1]
          IN  /\ c1.bytes_sent <= c2.bytes_sent =>
                    RateIs(F.speeds.net.bytes_sent_per_sec, c2.bytes_sent - c1.bytes_sent, dt)
              /\ c1.bytes_recv <= c2.bytes_recv =>
                    RateIs(F.speeds.net.bytes_recv_per_sec, c2.bytes_recv - c1.bytes_recv, dt)
    /\ (HasPrevDisk /\ F.prev.time[1] < F.now) =>
          LET dt == F.now - F.prev.time[1]
              c1 == F.prev.disk_io[1]
              c2 == F.disk_io[1]
          IN  /\ c1.read_bytes <= c2.read_bytes =>
                    RateIs(F.speeds.disk_io.read_bytes_per_sec, c2.read_bytes - c1.read_bytes, dt)
              /\ c1.write_bytes <= c2.write_bytes =>
                    RateIs(F.speeds.disk_io.write_bytes_per_sec, c2.write_bytes - c1.write_bytes, dt)

\* The locals of the returned poll are the readings of the calls that did
\* not raise, and the store holds exactly its timestamp and counters.
StoreHoldsCurrent ==
    /\ _prev_snapshot.time = Some(F.now)
    /\ _prev_snapshot.net = F.net
    /\ _prev_snapshot.net_pernic = Some(F.net_pernic)
    /\ _prev_snapshot.disk_io = F.disk_io
    /\ F.src.raises = {} =>
          /\ F.net = F.src.net
          /\ F.net_pernic = F.src.nic
          /\ F.disk_io = F.src.disk

\* C2: cold start.  A poll that finds no previous sample of a metric (the
\* store is empty, or the previous poll's read of that metric failed) reports
\* every rate of that metric as 0.0 whatever the current counters are, and
\* when it returns the store holds exactly its timestamp and counters.
C2_ColdStartReportsZero ==
    frame # None =>
        /\ F.prev.net = None =>
              /\ F.speeds.net.bytes_sent_per_sec = Zero
              /\ F.speeds.net.bytes_recv_per_sec = Zero
        /\ ~NonEmpty(F.prev.net_pernic) =>
              \A nic \in DOMAIN F.speeds.per_nic :
                  /\ F.speeds.per_nic[nic].bytes_sent_per_sec = Zero
                  /\ F.speeds.per_nic[nic].bytes_recv_per_sec = Zero
        /\ F.prev.disk_io = None =>
              /\ F.speeds.disk_io.read_bytes_per_sec = Zero
              /\ F.speeds.disk_io.write_bytes_per_sec = Zero
        /\ (F.prev.net = None \/ ~NonEmpty(F.prev.net_pernic) \/ F.prev.disk_io = None) =>
              StoreHoldsCurrent

\* C2 witness: the previous poll's network read failed (a time is stored,
\* no network sample), and this poll reads the highest counters.
C2_Witness ==
    /\ frame # None
    /\ F.prev.time # None /\ F.prev.net = None /\ ~NonEmpty(F.prev.net_pernic)
    /\ Present(F.prev.disk_io)
    /\ F.prev.time[1] < F.now
    /\ Present(F.net) /\ F.net[1].bytes_sent = MaxBytes /\ F.net[1].bytes_recv = MaxBytes
    /\ DOMAIN F.speeds.per_nic = NICs

\* Elapsed time as the engine floors it.
Elapsed == Max(F.now - F.prev.time[1], EPS)

\* C5: a poll with a non-empty store reports, for every interface of the
\* current counters that the stored per-interface counters lack, both rates
\* 0 and the current packet counts; an interface present in both gets
\* (current - previous) / elapsed.
C5_PerInterfaceRates ==
    (frame # None /\ F.prev.time # None /\ F.prev.net_pernic # None) =>
        \A nic \in DOMAIN F.net_pernic :
            LET cur == F.net_pernic[nic]
                out == F.speeds.per_nic[nic]
            IN  IF nic \notin DOMAIN F.prev.net_pernic[1]
                THEN /\ out.bytes_sent_per_sec = Zero
                     /\ out.bytes_recv_per_sec = Zero
                     /\ out.packets_sent = cur.packets_sent
                     /\ out.packets_recv = cur.packets_recv
                ELSE LET old == F.prev.net_pernic[1][nic]
                     IN  /\ RateIs(out.bytes_sent_per_sec, cur.bytes_sent - old.bytes_sent, Elapsed)
                         /\ RateIs(out.bytes_recv_per_sec, cur.bytes_recv - old.bytes_recv, Elapsed)

\* C6: the key set of the per_nic result is the interface set of the current
\* per-interface counters; an interface of the previous sample that the
\* current one lacks is not in the result, and not in the store after the poll.
C6_ResultKeysAreCurrentInterfaces ==
    frame # None =>
        /\ DOMAIN F.speeds.per_nic = DOMAIN F.net_pernic
        /\ (F.src.raises \cap {"net", "nic"} = {}) => DOMAIN F.speeds.per_nic = DOMAIN F.src.nic
        /\ F.prev.net_pernic # None =>
              \A nic \in DOMAIN F.prev.net_pernic[1] \ DOMAIN F.net_pernic :
                  /\ nic \notin DOMAIN F.speeds.per_nic
                  /\ _prev_snapshot.net_pernic # None
                  /\ nic \notin DOMAIN _prev_snapshot.net_pernic[1]

\* C6 witness: eth1 was stored, the current counters have eth0 only.
C6_Witness ==
    /\ frame # None
    /\ F.prev.net_pernic # None
    /\ DOMAIN F.prev.net_pernic[1] = {"eth0", "eth1"}
    /\ DOMAIN F.net_pernic = {"eth0"}
    /\ F.src.raises = {}

\* C7: when the current timestamp equals the stored one or is earlier, no
\* division faults and each rate is (current - previous) / 1e-6.
C7_FlooredElapsed ==
    /\ (HasPrevNet /\ F.now <= F.prev.time[1]) =>
          /\ RateIs(F.speeds.net.bytes_sent_per_sec,
                    F.net[1].bytes_sent - F.prev.net[1].bytes_sent, EPS)
          /\ RateIs(F.speeds.net.bytes_recv_per_sec,
                    F.net[1].bytes_recv - F.prev.net[1].bytes_recv, EPS)
    /\ (HasPrevDisk /\ F.now <= F.prev.time[1]) =>
          /\ RateIs(F.speeds.disk_io.read_bytes_per_sec,
                    F.disk_io[1].read_bytes - F.prev.disk_io[1].read_bytes, EPS)
          /\ RateIs(F.speeds.disk_io.write_bytes_per_sec,
                    F.disk_io[1].write_bytes - F.prev.disk_io[1].write_bytes, EPS)

\* The poll of the same counters and the same store in which no call raises.
Unfailed == [F.src EXCEPT !.raises = {}]

\* C8: whatever reads fail, the poll returns, and for each read that
\* succeeded the rates reported and the sample stored are those of the poll
\* in which no other read failed.
C8_FailureContained ==
    frame # None =>
        /\ "net" \notin F.src.raises =>
              /\ F.speeds.net = NetSpeeds(F.now, ReadNet(Unfailed).net, F.prev.time, F.prev.net)
              /\ _prev_snapshot.net = ReadNet(Unfailed).net
        /\ F.src.raises \cap {"net", "nic"} = {} =>
              /\ F.speeds.per_nic =
                    PerNicSpeeds(F.now, ReadNet(Unfailed).net_pernic, F.prev.time, F.prev.net_pernic)
              /\ _prev_snapshot.net_pernic = Some(ReadNet(Unfailed).net_pernic)
        /\ "disk" \notin F.src.raises =>
              /\ F.speeds.disk_io = DiskSpeeds(F.now, ReadDisk(Unfailed), F.prev.time, F.prev.disk_io)
              /\ _prev_snapshot.disk_io = ReadDisk(Unfailed)

----------------------------------------------------------------------------
(* Claims about overlapping polls (SpecConc). *)

\* The thread has read all four keys of the previous sample.
HasReadPrev(t) ==
    thr[t].pc \in {"compute", "write_time", "write_net", "write_nic", "write_disk", "return"}

\* The thread is between its first read of _prev_snapshot and its last write.
InReadModifyWrite(t) ==
    thr[t].pc \in {"read_net", "read_nic", "read_disk", "compute",
                   "write_time", "write_net", "write_nic", "write_disk"}

\* C3: under any interleaving of concurrent polls, the four fields of the
\* previous sample a poll reads were all written by one single earlier poll,
\* or are all still empty.
C3_PreviousSampleIsWhole ==
    \A t \in Threads :
        HasReadPrev(t) => \A k \in Keys : thr[t].from[k] = thr[t].from["time"]

\* C4: the read-compute-write sequence of a poll is serialized: no other
\* poll reads or writes _prev_snapshot between a poll's read of the previous
\* sample and its replacement of it, so the sample a poll computed against
\* is still the stored one when the poll starts to replace it.
C4_ReadComputeWriteSerialized ==
    /\ \A t, u \in Threads : (t # u /\ InReadModifyWrite(t)) => ~InReadModifyWrite(u)
    /\ \A t \in Threads : thr[t].pc = "write_time" => thr[t].from = writer

----------------------------------------------------------------------------
(* Claims about a whole request (SpecMetrics). *)

DocumentedFields ==
    {"cpu", "memory", "disks", "network_totals", "network_speeds", "per_nic_speeds",
     "disk_io_speeds", "disk_io_totals", "gpu", "system_info", "interfaces", "battery",
     "top_processes_cpu", "top_processes_mem", "page_faults_total", "uptime_boot_time",
     "timestamp", "connections_count"}

\* C9: whatever providers fail during a request, /api/metrics answers with a
\* snapshot that has every documented field; the request never fails.
C9_AlwaysBestEffortSnapshot ==
    response # None =>
        /\ response[1].status = 200
        /\ response[1].body # None
        /\ DocumentedFields \subseteq DOMAIN response[1].body[1]

====
